---------------------------- MODULE Spec2Model ----------------------------
(***************************************************************************)
(* Model of the BLOCON desktop launcher (src-tauri/src/main.rs) and its    *)
(* configuration store (src-tauri/src/config.rs).                          *)
(*                                                                         *)
(* Text is a sequence of characters.  A character is a one-element TLA+    *)
(* string; a longer string such as "SP_TENANT_ID" stands for that run of   *)
(* ordinary characters (no white space, '=', '#', quote or newline in it), *)
(* which the code only ever copies or compares as a whole.                 *)
(*                                                                         *)
(* Time is counted in ticks of 250 ms (HEALTHCHECK_INTERVAL).              *)
(***************************************************************************)
EXTENDS Integers, Sequences, FiniteSets, TLC

(***************************************************************************)
(* Bounds of the model.                                                    *)
(***************************************************************************)
MaxLog == 1          \* events the drain task receives from the child
MaxClose == 2        \* CloseRequested window events per session
MaxCmds == 2         \* config commands the GUI invokes, the store on its own
MaxSessionCmds == 1  \* config commands the GUI invokes in a supervised session

(***************************************************************************)
(* Characters and strings.                                                 *)
(***************************************************************************)
NL == "\n"
CR == "\r"
EQ == "="
HASH == "#"
DQ == "\""
SQ == "'"
WS == {" ", "\t", CR, NL}

RECURSIVE TrimStart(_)
TrimStart(s) ==
    IF s # <<>> /\ Head(s) \in WS THEN TrimStart(Tail(s)) ELSE s

RECURSIVE TrimEnd(_)
TrimEnd(s) ==
    IF s # <<>> /\ s[Len(s)] \in WS THEN TrimEnd(SubSeq(s, 1, Len(s) - 1)) ELSE s

Trim(s) == TrimEnd(TrimStart(s))

RECURSIVE TrimMatchesStart(_, _)
TrimMatchesStart(s, c) ==
    IF s # <<>> /\ Head(s) = c THEN TrimMatchesStart(Tail(s), c) ELSE s

RECURSIVE TrimMatchesEnd(_, _)
TrimMatchesEnd(s, c) ==
    IF s # <<>> /\ s[Len(s)] = c
    THEN TrimMatchesEnd(SubSeq(s, 1, Len(s) - 1), c)
    ELSE s

\* str::trim_matches(c): every leading and every trailing c is removed.
TrimMatches(s, c) == TrimMatchesEnd(TrimMatchesStart(s, c), c)

\* Position of the first c in s, 0 when there is none.
RECURSIVE IndexOfFrom(_, _, _)
IndexOfFrom(s, c, i) ==
    IF i > Len(s) THEN 0
    ELSE IF s[i] = c THEN i
    ELSE IndexOfFrom(s, c, i + 1)

IndexOf(s, c) == IndexOfFrom(s, c, 1)

\* One line of str::lines(): a trailing carriage return is not part of it.
StripCR(l) ==
    IF l # <<>> /\ l[Len(l)] = CR THEN SubSeq(l, 1, Len(l) - 1) ELSE l

\* str::lines(): split at every newline; a final newline ends the last line
\* and opens no further one.
RECURSIVE Lines(_)
Lines(s) ==
    IF s = <<>> THEN <<>>
    ELSE LET i == IndexOf(s, NL) IN
         IF i = 0 THEN <<StripCR(s)>>
         ELSE <<StripCR(SubSeq(s, 1, i - 1))>> \o Lines(SubSeq(s, i + 1, Len(s)))

\* [String]::join("\n")
RECURSIVE JoinNL(_)
JoinNL(ls) ==
    IF ls = <<>> THEN <<>>
    ELSE IF Len(ls) = 1 THEN ls[1]
    ELSE ls[1] \o <<NL>> \o JoinNL(Tail(ls))

Digits == <<"0", "1", "2", "3", "4", "5", "6", "7", "8", "9">>

DigitVal(c) == CHOOSE d \in 0..9 : Digits[d + 1] = c

IsDigit(c) == \E d \in 1..10 : Digits[d] = c

\* A u32 is kept in the 32 bits of one of TLC's integers: a value below 2^31
\* is itself, a value from 2^31 up appears as that value less 2^32, so that
\* u32::MAX (4294967295) is U32_MAX below and "at least 1" is "not 0".
U32_MAX == -1

\* format!("{}", n) of a u32
RECURSIVE FormatU32(_)
FormatU32(n) ==
    IF n < 0
    THEN LET h == (n + 2147483647) + 1      \* the value less 2^31
         IN  FormatU32((h \div 10) + 214748364 + (((h % 10) + 8) \div 10))
                 \o <<Digits[(((h % 10) + 8) % 10) + 1]>>
    ELSE IF n < 10 THEN <<Digits[n + 1]>>
    ELSE FormatU32(n \div 10) \o <<Digits[(n % 10) + 1]>>


(***************************************************************************)
(* The configuration entity.  Of the 33 fields of SharePointConfig the     *)
(* model carries one or more of each kind the code distinguishes: the      *)
(* three required credentials, a string whose default is empty             *)
(* (user_name), a string whose default is not empty (site_hostname) and    *)
(* the two numbers.  The other string fields go through the same format!   *)
(* and set_value calls.                                                    *)
(***************************************************************************)
DefaultTimeoutS == 30
DefaultThresholdKb == 100

DefaultConfig ==
    [ user_name |-> <<>>,
      tenant_id |-> <<>>,
      client_id |-> <<>>,
      client_secret |-> <<>>,
      site_hostname |-> <<"your-hostname-here.sharepoint.com">>,
      events_snapshot_threshold_kb |-> DefaultThresholdKb,
      timeout_s |-> DefaultTimeoutS ]

\* SharePointConfig::to_env_format
to_env_format(c) ==
    JoinNL(<< <<"USER_NAME", EQ>> \o c.user_name,
              <<>>,
              <<"SP_TENANT_ID", EQ>> \o c.tenant_id,
              <<"SP_CLIENT_ID", EQ>> \o c.client_id,
              <<"SP_CLIENT_SECRET", EQ>> \o c.client_secret,
              <<>>,
              <<"SP_SITE_HOSTNAME", EQ>> \o c.site_hostname,
              <<>>,
              <<"SP_TIMEOUT_S", EQ>> \o FormatU32(c.timeout_s),
              <<>>,
              <<"SP_EVENTS_SNAPSHOT_THRESHOLD_KB", EQ>>
                  \o FormatU32(c.events_snapshot_threshold_kb),
              <<>> >>)

\* validate_required: TRUE when the three credentials are all present.
validate_required(c) ==
    ~ (c.tenant_id = <<>> \/ c.client_id = <<>> \/ c.client_secret = <<>>)

\* HashMap::insert
MapInsert(m, k, v) ==
    [x \in (DOMAIN m) \cup {k} |-> IF x = k THEN v ELSE m[x]]

EmptyMap == [x \in {} |-> <<>>]

\* The body of parse_env's loop for one raw line.
ParseLine(values, raw_line) ==
    LET line == Trim(raw_line) IN
    IF line = <<>> \/ Head(line) = HASH THEN values
    ELSE LET i == IndexOf(line, EQ)
             rawkey == IF i = 0 THEN line ELSE SubSeq(line, 1, i - 1)
             key == Trim(rawkey)
             value == IF i = 0 THEN <<>>
                      ELSE Trim(SubSeq(line, i + 1, Len(line)))
             cleaned == TrimMatches(TrimMatches(value, DQ), SQ)
         IN  IF key = <<>> THEN values ELSE MapInsert(values, key, cleaned)

RECURSIVE ParseLines(_, _)
ParseLines(values, ls) ==
    IF ls = <<>> THEN values
    ELSE ParseLines(ParseLine(values, Head(ls)), Tail(ls))

parse_env(contents) == ParseLines(EmptyMap, Lines(contents))

\* set_value: the field keeps its value unless the key is present and not empty.
set_value(target, values, key) ==
    IF <<key>> \in DOMAIN values /\ values[<<key>>] # <<>>
    THEN values[<<key>>]
    ELSE target

RECURSIVE DigitsValue(_, _)
DigitsValue(s, acc) ==
    IF s = <<>> THEN acc
    ELSE DigitsValue(Tail(s), acc * 10 + DigitVal(Head(s)))

AllDigits(s) == \A i \in 1..Len(s) : IsDigit(s[i])

RECURSIVE StripZeros(_)
StripZeros(s) == IF s # <<>> /\ Head(s) = "0" THEN StripZeros(Tail(s)) ELSE s

\* a < b for two runs of digits of the same length
RECURSIVE DigitsLess(_, _)
DigitsLess(a, b) ==
    IF a = <<>> THEN FALSE
    ELSE IF Head(a) # Head(b) THEN DigitVal(Head(a)) < DigitVal(Head(b))
    ELSE DigitsLess(Tail(a), Tail(b))

\* The least decimal integer that rounds to f32::INFINITY: f32::MAX + 2^103.
F32Overflow ==
    << "3", "4", "0", "2", "8", "2", "3", "5", "6", "7", "7", "9", "7", "3",
       "3", "6", "6", "1", "6", "3", "7", "5", "3", "9", "3", "9", "5", "4",
       "5", "8", "1", "4", "2", "5", "6", "8", "4", "4", "8" >>

\* The spacing of the f32 values around v, for v from 2^23 up.
RECURSIVE F32Ulp(_)
F32Ulp(v) == IF v < 16777216 THEN 1 ELSE 2 * F32Ulp(v \div 2)

\* The fraction digits against one half: -1 below, 0 equal, 1 above.
FracCmpHalf(frac) ==
    IF frac = <<>> \/ DigitVal(Head(frac)) < 5 THEN -1
    ELSE IF DigitVal(Head(frac)) > 5 \/ StripZeros(Tail(frac)) # <<>> THEN 1
    ELSE 0

\* The f32 nearest to v + 0.frac (ties to even), for v from 2^23 up, where
\* every f32 is a whole number.
F32Nearest(v, frac) ==
    LET u == F32Ulp(v)
        q == v \div u
        r == v % u
        up == IF u = 1
              THEN FracCmpHalf(frac) = 1 \/ (FracCmpHalf(frac) = 0 /\ q % 2 = 1)
              ELSE \/ 2 * r > u
                   \/ 2 * r = u /\ (q % 2 = 1 \/ StripZeros(frac) # <<>>)
    IN  IF up THEN (q + 1) * u ELSE q * u

\* str::parse::<f32>: an optional sign, then "inf" / "nan", or digits with an
\* optional fraction (texts with an exponent are not among those drawn here).
\* The result is kept as what round() and the cast read: the sign; `over`, a
\* finite value of 10^10 or more, which no u32 holds; else the whole part of
\* the f32 and whether its fraction reaches one half.  The whole part is
\* worked out for values below 10^9; below 2^23, where an f32 has fraction
\* bits, the decimal's first fraction digit stands for the f32's fraction,
\* which is exact for texts of six significant digits or fewer.
ParseF32(s) ==
    LET signed == s # <<>> /\ Head(s) \in {"-", "+"}
        neg == s # <<>> /\ Head(s) = "-"
        body == IF signed THEN Tail(s) ELSE s
        dot == IndexOf(body, ".")
        whole == IF dot = 0 THEN body ELSE SubSeq(body, 1, dot - 1)
        frac == IF dot = 0 THEN <<>> ELSE SubSeq(body, dot + 1, Len(body))
        sig == StripZeros(whole)
        bad == [ok |-> FALSE, finite |-> FALSE, neg |-> FALSE, over |-> FALSE,
                whole |-> 0, half |-> FALSE]
    IN  IF body \in {<<"inf">>, <<"infinity">>, <<"nan">>, <<"NaN">>}
        THEN [bad EXCEPT !.ok = TRUE, !.neg = neg]
        ELSE IF ~ (/\ AllDigits(whole) /\ AllDigits(frac)
                   /\ (whole # <<>> \/ frac # <<>>))
        THEN bad
        ELSE IF Len(sig) > 39 \/ (Len(sig) = 39 /\ ~ DigitsLess(sig, F32Overflow))
        THEN [bad EXCEPT !.ok = TRUE, !.neg = neg]
        ELSE IF Len(sig) > 10
        THEN [ok |-> TRUE, finite |-> TRUE, neg |-> neg, over |-> TRUE,
              whole |-> 0, half |-> FALSE]
        ELSE LET v == DigitsValue(sig, 0) IN
             [ok |-> TRUE, finite |-> TRUE, neg |-> neg, over |-> FALSE,
              whole |-> IF v < 8388608 THEN v ELSE F32Nearest(v, frac),
              half |-> v < 8388608 /\ FracCmpHalf(frac) >= 0]

\* Mutant: the fraction is dropped instead of rounded.
RoundMax1_truncates(p) ==
    IF p.neg THEN 1
    ELSE IF p.over THEN U32_MAX
    ELSE IF p.whole < 1 THEN 1
    ELSE p.whole

\* parsed.round().max(1.0) as u32: round() goes away from zero at one half,
\* max(1.0) lifts zero and every negative value to 1, and the cast of a value
\* beyond u32::MAX gives u32::MAX.
RoundMax1(p) ==
    LET rounded == IF p.half THEN p.whole + 1 ELSE p.whole IN
    IF p.neg THEN 1
    ELSE IF p.over THEN U32_MAX
    ELSE IF rounded < 1 THEN 1
    ELSE rounded

\* The two numeric keys of config_from_env.
set_number(target, values, key) ==
    IF <<key>> \in DOMAIN values
    THEN LET parsed == ParseF32(values[<<key>>]) IN
         IF parsed.ok /\ parsed.finite THEN RoundMax1(parsed) ELSE target
    ELSE target

config_from_env(values) ==
    LET d == DefaultConfig IN
    [ user_name |-> set_value(d.user_name, values, "USER_NAME"),
      tenant_id |-> set_value(d.tenant_id, values, "SP_TENANT_ID"),
      client_id |-> set_value(d.client_id, values, "SP_CLIENT_ID"),
      client_secret |-> set_value(d.client_secret, values, "SP_CLIENT_SECRET"),
      site_hostname |-> set_value(d.site_hostname, values, "SP_SITE_HOSTNAME"),
      events_snapshot_threshold_kb |->
          set_number(d.events_snapshot_threshold_kb, values,
                     "SP_EVENTS_SNAPSHOT_THRESHOLD_KB"),
      timeout_s |-> set_number(d.timeout_s, values, "SP_TIMEOUT_S") ]

(***************************************************************************)
(* Bytes of the blob file.  `members` are the members of the JSON object   *)
(* in the order written, `wellformed` says that the bytes are JSON at      *)
(* all, and `sealed` that they are the output of CryptProtectData for      *)
(* this user rather than the JSON itself.                                  *)
(***************************************************************************)
StrMember(k, v) == [k |-> k, isnum |-> FALSE, s |-> v, n |-> 0]
NumMember(k, v) == [k |-> k, isnum |-> TRUE, s |-> <<>>, n |-> v]

\* Mutant: the blob is written without the user's name.
to_vec_without_user(c) ==
    [ sealed |-> FALSE, wellformed |-> TRUE,
      members |-> << StrMember("user_name", <<>>),
                     StrMember("tenant_id", c.tenant_id),
                     StrMember("client_id", c.client_id),
                     StrMember("client_secret", c.client_secret),
                     StrMember("site_hostname", c.site_hostname),
                     NumMember("events_snapshot_threshold_kb",
                               c.events_snapshot_threshold_kb),
                     NumMember("timeout_s", c.timeout_s) >> ]

\* serde_json::to_vec(config): the fields in declaration order.
to_vec(c) ==
    [ sealed |-> FALSE, wellformed |-> TRUE,
      members |-> << StrMember("user_name", c.user_name),
                     StrMember("tenant_id", c.tenant_id),
                     StrMember("client_id", c.client_id),
                     StrMember("client_secret", c.client_secret),
                     StrMember("site_hostname", c.site_hostname),
                     NumMember("events_snapshot_threshold_kb",
                               c.events_snapshot_threshold_kb),
                     NumMember("timeout_s", c.timeout_s) >> ]

StrFields == {"user_name", "tenant_id", "client_id", "client_secret",
              "site_hostname"}
NumFields == {"events_snapshot_threshold_kb", "timeout_s"}

MemberAt(b, f) == b.members[CHOOSE i \in 1..Len(b.members) : b.members[i].k = f]

\* serde_json::from_slice::<SharePointConfig> succeeds: the bytes are JSON,
\* every field of the struct occurs exactly once with a value of its type
\* (the derive has no default for a missing field; a number is one a u32
\* holds), other members are skipped.
from_slice_ok(b) ==
    /\ ~ b.sealed
    /\ b.wellformed
    /\ \A f \in StrFields \cup NumFields :
          /\ Cardinality({i \in 1..Len(b.members) : b.members[i].k = f}) = 1
          /\ MemberAt(b, f).isnum = (f \in NumFields)

\* Mutant: the numbers of the blob are not read back.
from_slice_default_numbers(b) ==
    [ user_name |-> MemberAt(b, "user_name").s,
      tenant_id |-> MemberAt(b, "tenant_id").s,
      client_id |-> MemberAt(b, "client_id").s,
      client_secret |-> MemberAt(b, "client_secret").s,
      site_hostname |-> MemberAt(b, "site_hostname").s,
      events_snapshot_threshold_kb |-> DefaultThresholdKb,
      timeout_s |-> DefaultTimeoutS ]

\* serde_json::from_slice::<SharePointConfig>, the entity decoded
from_slice(b) ==
    [ user_name |-> MemberAt(b, "user_name").s,
      tenant_id |-> MemberAt(b, "tenant_id").s,
      client_id |-> MemberAt(b, "client_id").s,
      client_secret |-> MemberAt(b, "client_secret").s,
      site_hostname |-> MemberAt(b, "site_hostname").s,
      events_snapshot_threshold_kb |->
          MemberAt(b, "events_snapshot_threshold_kb").n,
      timeout_s |-> MemberAt(b, "timeout_s").n ]

\* encrypt_bytes: CryptProtectData under cfg(windows), the input otherwise.
encrypt_bytes(windows, b) == IF windows THEN [b EXCEPT !.sealed = TRUE] ELSE b

\* decrypt_bytes succeeds: CryptUnprotectData accepts only what
\* CryptProtectData made; the pass-through accepts everything.
decrypt_ok(windows, b) == windows => b.sealed

decrypt_bytes(windows, b) == IF windows THEN [b EXCEPT !.sealed = FALSE] ELSE b


(***************************************************************************)
(* Files.  A file that exists may still refuse to be read (permissions, a  *)
(* directory of that name): `readable` is FALSE for it.                    *)
(***************************************************************************)
Garbage == [sealed |-> FALSE, wellformed |-> FALSE, members |-> <<>>]

NoBlob == [exists |-> FALSE, readable |-> FALSE, bytes |-> Garbage]
BlobFile(b) == [exists |-> TRUE, readable |-> TRUE, bytes |-> b]

NoText == [exists |-> FALSE, readable |-> FALSE, text |-> <<>>]
TextFile(t) == [exists |-> TRUE, readable |-> TRUE, text |-> t]

\* fs::write that succeeds: the content is replaced, a new file is created.
Written(old, new) == IF old.exists THEN [new EXCEPT !.readable = old.readable] ELSE new

\* fs::write that fails: the file was not opened and is as before, or it was
\* opened (created and cut to length 0) and the write did not complete.
FailedBlobWrite(old, cut) == IF cut THEN Written(old, BlobFile(Garbage)) ELSE old
FailedTextWrite(old, cut) == IF cut THEN Written(old, TextFile(<<>>)) ELSE old

Result(op, e, c) == [op |-> op, ok |-> e = "", err |-> e, cfg |-> c, has |-> FALSE]

NoResult == Result("none", "", DefaultConfig)

ErrMissing == "Missing required SharePoint credentials"
ErrNotFound == "No configuration found"

(***************************************************************************)
(* Entities and files the environment may present.                         *)
(***************************************************************************)
CfgA == [DefaultConfig EXCEPT !.user_name = <<"a">>, !.tenant_id = <<"t">>,
                              !.client_id = <<"c">>, !.client_secret = <<"s">>,
                              !.timeout_s = 5]
CfgB == [CfgA EXCEPT !.user_name = <<"b">>, !.site_hostname = <<"h">>]
CfgC == [CfgA EXCEPT !.user_name = <<"c">>]
CfgNoTenant == [CfgA EXCEPT !.tenant_id = <<>>]
\* a name typed with a space after it, a secret that begins with a quote
CfgPadded == [CfgB EXCEPT !.user_name = <<"a", " ">>]
CfgQuoted == [CfgB EXCEPT !.client_secret = <<SQ, "s">>]
\* numbers the GUI can send: zero, and one that no f32 holds
CfgZero == [CfgB EXCEPT !.timeout_s = 0]
CfgBig == [CfgB EXCEPT !.events_snapshot_threshold_kb = 16777217]

VARIABLES
    windows,           \* cfg(windows): the build this session runs
    data_dir,          \* the local app data directory resolves (ConfigManager::new)
    dir,               \* ConfigManager.config_dir exists
    blob,              \* ConfigManager.config_file (config.dat)
    mirror,            \* ConfigManager.env_file (.env in config_dir)
    cwd_mirror,        \* .env in the current working directory
    pc,                \* position of main's setup closure
    loaded,            \* `config` bound by Ok(config) at main.rs:152
    ret,               \* what the last store operation returned
    cmds,              \* commands invoked so far
    window,            \* "initial", "hidden", "shown", "focused"
    probes,            \* calls of check_health made by setup itself (main.rs:168)
    spawns,            \* attempts to create the child (main.rs:175-176)
    backend_already_running,
    io,                \* the exchange check_health is in at main.rs:168, else NoExchange
    child,             \* Option<CommandChild>: "None" or "Some"
    we_own_it,
    managed,           \* app.manage(BackendState {..}) has run
    proc,              \* the spawned process: "none", "running", "exited"
    drain,             \* the drain task: "off", "on", "ended"
    output_log,
    elapsed,           \* start.elapsed() of wait_for_backend, in ticks
    waited,            \* wait_for_backend has been called
    kills,             \* calls of CommandChild::kill
    cb,                \* the CloseRequested callbacks delivered so far
    lock,              \* who holds each Mutex of BackendState
    push               \* the entry the drain task is pushing, else NoEntry

store == <<windows, data_dir, dir, blob, mirror, cwd_mirror, loaded, ret, cmds>>
sup == <<window, probes, spawns, backend_already_running, io, child, we_own_it,
         managed, proc, drain, output_log, elapsed, waited, kills, cb, lock,
         push>>
vars == <<store, sup, pc>>

(***************************************************************************)
(* The three Mutexes: child and we_own_backend of BackendState             *)
(* (main.rs:23-27, 235-239) and output_log (main.rs:170).  An activity is  *)
(* the startup thread, the drain task or one CloseRequested callback.      *)
(***************************************************************************)
Free == <<>>
Startup == <<"startup">>
DrainTask == <<"drain">>
Callback(i) == <<"callback", i>>

NoLocks == [child |-> Free, flag |-> Free, log |-> Free]

\* Mutant: lock() returns at once, whoever holds the Mutex.
LockFreeIgnored(l) == TRUE

\* Mutex::lock returns once nobody holds the Mutex.
LockFree(l) == lock[l] = Free

NoEntry == [tag |-> "", text |-> ""]


(***************************************************************************)
(* The configuration store (config.rs).                                    *)
(***************************************************************************)
\* Mutant: only the blob is looked for.
has_config_blob_only(b, m) == b.exists

\* ConfigManager::has_config
has_config(b, m) == b.exists \/ m.exists

\* Mutant: the working directory's file is tried first.
env_fallback_paths_cwd_first(m, cm) == <<cm, m>>

\* env_fallback_paths: the store's mirror, then .env of the working directory
\* (a working directory that cannot be resolved has no such file).
env_fallback_paths(m, cm) == <<m, cm>>

\* The loop of load_config over the candidates (config.rs:234-245).
RECURSIVE LoadFallback(_)
LoadFallback(candidates) ==
    IF candidates = <<>> THEN Result("load", ErrNotFound, DefaultConfig)
    ELSE LET f == Head(candidates) IN
         IF ~ f.exists THEN LoadFallback(Tail(candidates))
         ELSE IF ~ f.readable
         THEN Result("load", "Failed to read .env", DefaultConfig)
         ELSE LET config == config_from_env(parse_env(f.text)) IN
              IF validate_required(config)
              THEN Result("load", "", config)
              ELSE Result("load", ErrMissing, DefaultConfig)

\* ConfigManager::load_config
load_config(w, b, m, cm) ==
    IF b.exists /\ ~ b.readable
    THEN Result("load", "Failed to read config.dat", DefaultConfig)
    ELSE IF /\ b.exists
            /\ decrypt_ok(w, b.bytes)
            /\ from_slice_ok(decrypt_bytes(w, b.bytes))
    THEN Result("load", "", from_slice(decrypt_bytes(w, b.bytes)))
    ELSE LoadFallback(env_fallback_paths(m, cm))

SaveFaults == {"none", "mkdir", "seal", "write_blob", "write_env"}

\* The environment can make this step of save_config fail.
FaultPossible(fault, w, d) ==
    /\ fault = "mkdir" => ~ d
    /\ fault = "seal" => w

\* Mutant: the mirror is written first, the blob after it.
save_config_mirror_first(w, d, b, m, config, fault, cut) ==
    IF fault = "mkdir"
    THEN [dir |-> d, blob |-> b, mirror |-> m,
          ret |-> Result("save", "Failed to create config directory", config)]
    ELSE IF fault = "write_env"
    THEN [dir |-> TRUE, blob |-> b, mirror |-> FailedTextWrite(m, cut),
          ret |-> Result("save", "Failed to write .env", config)]
    ELSE LET nm == Written(m, TextFile(to_env_format(config))) IN
         IF fault = "seal"
         THEN [dir |-> TRUE, blob |-> b, mirror |-> nm,
               ret |-> Result("save", "DPAPI encryption failed", config)]
         ELSE IF fault = "write_blob"
         THEN [dir |-> TRUE, blob |-> FailedBlobWrite(b, cut), mirror |-> nm,
               ret |-> Result("save", "Failed to write config.dat", config)]
         ELSE [dir |-> TRUE, mirror |-> nm,
               blob |-> Written(b, BlobFile(encrypt_bytes(w, to_vec(config)))),
               ret |-> Result("save", "", config)]

\* ConfigManager::save_config with the step `fault` failing (`cut`: a failing
\* write had already emptied the file).  The new directory, files and result.
save_config(w, d, b, m, config, fault, cut) ==
    IF fault = "mkdir"
    THEN [dir |-> d, blob |-> b, mirror |-> m,
          ret |-> Result("save", "Failed to create config directory", config)]
    ELSE IF fault = "seal"
    THEN [dir |-> TRUE, blob |-> b, mirror |-> m,
          ret |-> Result("save", "DPAPI encryption failed", config)]
    ELSE IF fault = "write_blob"
    THEN [dir |-> TRUE, blob |-> FailedBlobWrite(b, cut), mirror |-> m,
          ret |-> Result("save", "Failed to write config.dat", config)]
    ELSE LET nb == Written(b, BlobFile(encrypt_bytes(w, to_vec(config)))) IN
         IF fault = "write_env"
         THEN [dir |-> TRUE, blob |-> nb, mirror |-> FailedTextWrite(m, cut),
               ret |-> Result("save", "Failed to write .env", config)]
         ELSE [dir |-> TRUE, blob |-> nb,
               mirror |-> Written(m, TextFile(to_env_format(config))),
               ret |-> Result("save", "", config)]

\* Entities the GUI hands to the save command.
SaveInputs ==
    { CfgB, CfgNoTenant, [CfgB EXCEPT !.client_secret = <<>>],
      CfgPadded, CfgQuoted, CfgZero, CfgBig }

\* The GUI invokes commands while the window is up and not being closed.
CanInvoke(limit) == pc = "running" /\ cb = <<>> /\ cmds < limit

ErrNoDataDir == "Unable to determine local app data directory"

\* ConfigManager::new(&app_handle)? at the head of a command fails.
CmdNoDataDir(limit) ==
    /\ CanInvoke(limit)
    /\ ~ data_dir
    /\ \E op \in {"load", "has_config", "delete"} :
          ret' = Result(op, ErrNoDataDir, DefaultConfig)
    /\ cmds' = cmds + 1
    /\ UNCHANGED <<windows, data_dir, dir, blob, mirror, cwd_mirror, loaded, sup, pc>>

\* #[tauri::command] save_config
CmdSave(limit) ==
    /\ CanInvoke(limit)
    /\ \E config \in SaveInputs, fault \in SaveFaults, cut \in BOOLEAN :
          /\ FaultPossible(fault, windows, dir)
          /\ cut => fault \in {"write_blob", "write_env"}
          /\ IF ~ validate_required(config)
             THEN /\ fault = "none" /\ ~ cut
                  /\ ret' = Result("save", ErrMissing, config)
                  /\ UNCHANGED <<dir, blob, mirror>>
             ELSE IF ~ data_dir
             THEN /\ fault = "none" /\ ~ cut
                  /\ ret' = Result("save", ErrNoDataDir, config)
                  /\ UNCHANGED <<dir, blob, mirror>>
             ELSE LET r == save_config(windows, dir, blob, mirror, config, fault, cut)
                  IN  /\ dir' = r.dir
                      /\ blob' = r.blob
                      /\ mirror' = r.mirror
                      /\ ret' = r.ret
    /\ cmds' = cmds + 1
    /\ UNCHANGED <<windows, data_dir, cwd_mirror, loaded, sup, pc>>

\* #[tauri::command] load_config
CmdLoad(limit) ==
    /\ CanInvoke(limit)
    /\ data_dir
    /\ ret' = load_config(windows, blob, mirror, cwd_mirror)
    /\ cmds' = cmds + 1
    /\ UNCHANGED <<windows, data_dir, dir, blob, mirror, cwd_mirror, loaded, sup, pc>>

\* #[tauri::command] has_config
CmdHasConfig(limit) ==
    /\ CanInvoke(limit)
    /\ data_dir
    /\ ret' = [Result("has_config", "", DefaultConfig)
                  EXCEPT !.has = has_config(blob, mirror)]
    /\ cmds' = cmds + 1
    /\ UNCHANGED <<windows, data_dir, dir, blob, mirror, cwd_mirror, loaded, sup, pc>>

\* #[tauri::command] delete_config; fs::remove_file of `fault` fails.
CmdDelete(limit) ==
    /\ CanInvoke(limit)
    /\ data_dir
    /\ \E fault \in {"none", "blob", "env"} :
          /\ fault = "blob" => blob.exists
          /\ fault = "env" => mirror.exists
          /\ IF fault = "blob"
             THEN /\ ret' = Result("delete", "Failed to delete config.dat", DefaultConfig)
                  /\ UNCHANGED <<blob, mirror>>
             ELSE /\ blob' = NoBlob
                  /\ IF fault = "env"
                     THEN /\ ret' = Result("delete", "Failed to delete .env", DefaultConfig)
                          /\ UNCHANGED mirror
                     ELSE /\ ret' = Result("delete", "", DefaultConfig)
                          /\ mirror' = NoText
    /\ cmds' = cmds + 1
    /\ UNCHANGED <<windows, data_dir, dir, cwd_mirror, loaded, sup, pc>>


(***************************************************************************)
(* The health probe (main.rs:38-92).  An exchange with 127.0.0.1:8000 is   *)
(* what the environment answers: whether connect, write and read succeed   *)
(* and the bytes the one read returns.                                     *)
(***************************************************************************)
Exchange(c, w, r, data) == [connect |-> c, write |-> w, read |-> r, data |-> data]

Exchanges ==
    { Exchange(FALSE, FALSE, FALSE, <<>>),                       \* port closed
      Exchange(TRUE, FALSE, FALSE, <<>>),
      Exchange(TRUE, TRUE, FALSE, <<>>),
      Exchange(TRUE, TRUE, TRUE, <<>>),                          \* 0 bytes
      Exchange(TRUE, TRUE, TRUE, <<"HTTP/1.1 200", " OK", CR, NL, CR, NL>>),
      Exchange(TRUE, TRUE, TRUE, <<"HTTP/1.0 200", " OK", CR, NL, CR, NL>>),
      Exchange(TRUE, TRUE, TRUE, <<"HTTP/1.1 500", " Internal", CR, NL, CR, NL>>),
      Exchange(TRUE, TRUE, TRUE,
               <<"HTTP/1.1 500", " Internal", CR, NL, CR, NL, "HTTP/1.1 200">>) }

\* No call of check_health is under way.
NoExchange == Exchange(FALSE, FALSE, FALSE, <<>>)

\* str::contains of a run of ordinary characters
Contains(s, run) == \E i \in 1..Len(s) : s[i] = run

\* check_health
check_health(x) ==
    /\ x.connect
    /\ x.write
    /\ x.read
    /\ Len(x.data) # 0
    /\ (Contains(x.data, "HTTP/1.1 200") \/ Contains(x.data, "HTTP/1.0 200"))

(***************************************************************************)
(* Time, in ticks of 250 ms.                                               *)
(***************************************************************************)
HEALTHCHECK_INTERVAL == 1
HEALTHCHECK_TIMEOUT == 120
\* connect_timeout / read_timeout / write_timeout of check_health: 2 s
PROBE_IO_TIMEOUT == 8

\* How long one check_health call can take: no time to speak of, or the
\* length of one of its timeouts.
ProbeTicks == {0, PROBE_IO_TIMEOUT}

(***************************************************************************)
(* The setup closure of main (main.rs:135-245).                            *)
(***************************************************************************)
Terminal == {"err_window", "err_spawn", "err_timeout"}

\* Mutant: the window is not hidden while setup runs.
AfterHideShown == "shown"

\* main.rs:144: window.hide()
AfterHide == "hidden"

\* get_window("main") and window.hide()
SetupWindow ==
    /\ pc = "start"
    /\ \E ok \in BOOLEAN :
          IF ok THEN window' = AfterHide /\ pc' = "config"
                ELSE pc' = "err_window" /\ UNCHANGED window
    /\ UNCHANGED <<store, probes, spawns, backend_already_running, io, child,
                   we_own_it, managed, proc, drain, output_log, elapsed,
                   waited, kills, cb, lock, push>>

\* Mutant: a config that loaded is not saved again.
AfterLoadNoRefresh(ok) == "probe"

\* main.rs:152-159: Ok(config) goes on to save_config, Err is warned about
AfterLoad(ok) == IF ok THEN "refresh" ELSE "probe"

\* main.rs:149-166 up to the result of load_config
SetupLoadConfig ==
    /\ pc = "config"
    /\ IF data_dir /\ has_config(blob, mirror)
       THEN LET r == load_config(windows, blob, mirror, cwd_mirror) IN
            /\ ret' = r
            /\ pc' = AfterLoad(r.ok)
            /\ IF r.ok THEN loaded' = r.cfg ELSE UNCHANGED loaded
       ELSE pc' = "probe" /\ UNCHANGED <<ret, loaded>>
    /\ UNCHANGED <<windows, data_dir, dir, blob, mirror, cwd_mirror, cmds, sup>>

\* main.rs:153-155: manager.save_config(&config), its error only warned about
SetupRefreshSave ==
    /\ pc = "refresh"
    /\ \E fault \in SaveFaults, cut \in BOOLEAN :
          /\ FaultPossible(fault, windows, dir)
          /\ cut => fault \in {"write_blob", "write_env"}
          /\ LET r == save_config(windows, dir, blob, mirror, loaded, fault, cut)
             IN  /\ dir' = r.dir
                 /\ blob' = r.blob
                 /\ mirror' = r.mirror
                 /\ ret' = [r.ret EXCEPT !.op = "refresh"]
    /\ loaded' = DefaultConfig
    /\ pc' = "probe"
    /\ UNCHANGED <<windows, data_dir, cwd_mirror, cmds, sup>>

\* main.rs:168, check_health up to the end of its one read (main.rs:39-75):
\* the port answers with exchange x.
SetupProbe ==
    /\ pc = "probe"
    /\ \E x \in Exchanges : io' = x
    /\ probes' = probes + 1
    /\ pc' = "probe_io"
    /\ UNCHANGED <<store, window, spawns, backend_already_running, child,
                   we_own_it, managed, proc, drain, output_log, elapsed, waited,
                   kills, cb, lock, push>>

\* main.rs:77-91 and the binding of main.rs:168: the verdict on what was read
SetupProbeResult ==
    /\ pc = "probe_io"
    /\ backend_already_running' = check_health(io)
    /\ io' = NoExchange
    /\ pc' = "decide"
    /\ UNCHANGED <<store, window, probes, spawns, child, we_own_it, managed,
                   proc, drain, output_log, elapsed, waited, kills, cb, lock, push>>

\* Mutant: the sidecar is spawned whatever the probe said.
ShouldSpawnAlways(running) == TRUE

\* main.rs:173: the sidecar is spawned when the probe failed
ShouldSpawn(running) == ~ running

\* Mutant: the spawned child is registered without ownership.
SpawnedNotOwned == [child |-> "Some", we_own_it |-> FALSE]

\* main.rs:208: (Some(child), true)
Spawned == [child |-> "Some", we_own_it |-> TRUE]

\* main.rs:222: (None, false)
Reused == [child |-> "None", we_own_it |-> FALSE]

\* main.rs:220-223
SetupReuse ==
    /\ pc = "decide"
    /\ ~ ShouldSpawn(backend_already_running)
    /\ child' = Reused.child
    /\ we_own_it' = Reused.we_own_it
    /\ pc' = "call_wait"
    /\ UNCHANGED <<store, window, probes, spawns, backend_already_running, io,
                   managed, proc, drain, output_log, elapsed, waited, kills, cb, lock, push>>

\* Mutant: a failed spawn is only printed and setup goes on to the wait.
AfterSpawnGoesOn(outcome) == "call_wait"

\* main.rs:176-218: Ok((rx, child)) goes on to the wait, either Err returns
AfterSpawn(outcome) == IF outcome = "spawned" THEN "call_wait" ELSE "err_spawn"

\* main.rs:174-219: new_sidecar, spawn, the drain task started
SetupSpawn ==
    /\ pc = "decide"
    /\ ShouldSpawn(backend_already_running)
    /\ \E outcome \in {"spawned", "no_command", "spawn_failed"} :
          /\ spawns' = spawns + 1
          /\ pc' = AfterSpawn(outcome)
          /\ IF outcome = "spawned"
             THEN /\ child' = Spawned.child
                  /\ we_own_it' = Spawned.we_own_it
                  /\ proc' = "running"
                  /\ drain' = "on"
             ELSE UNCHANGED <<child, we_own_it, proc, drain>>
    /\ UNCHANGED <<store, window, probes, backend_already_running, io, managed,
                   output_log, elapsed, waited, kills, cb, lock, push>>


\* Mutant: the handle is borrowed, not taken, and stays in place.
kill_backend_keeps_handle(ch, ok, p) ==
    IF ch = "Some"
    THEN [child |-> "Some", calls |-> 1, proc |-> IF ok THEN "exited" ELSE p]
    ELSE [child |-> "None", calls |-> 0, proc |-> p]

\* kill_backend: Option::take, then one kill of what was taken.  `ok` is the
\* result of CommandChild::kill, whose failure is only printed; a kill that
\* fails leaves the process as it was.
kill_backend(ch, ok, p) ==
    IF ch = "Some"
    THEN [child |-> "None", calls |-> 1, proc |-> IF ok THEN "exited" ELSE p]
    ELSE [child |-> "None", calls |-> 0, proc |-> p]

\* main.rs:225-226: wait_for_backend is called, start = Instant::now()
WaitStart ==
    /\ pc = "call_wait"
    /\ elapsed' = 0
    /\ waited' = TRUE
    /\ pc' = "wait"
    /\ UNCHANGED <<store, window, probes, spawns, backend_already_running, io,
                   child, we_own_it, managed, proc, drain, output_log, kills, cb, lock, push>>

\* Mutant: the loop's condition admits the instant the budget is used up.
WithinBudgetInclusive(t) == t <= HEALTHCHECK_TIMEOUT

\* main.rs:98: the loop's condition
WithinBudget(t) == t < HEALTHCHECK_TIMEOUT

\* main.rs:98-101: the condition holds and check_health is called; the call
\* takes d ticks; a true result returns true from wait_for_backend.
WaitProbe ==
    /\ pc = "wait"
    /\ WithinBudget(elapsed)
    /\ \E x \in Exchanges, d \in ProbeTicks :
          /\ elapsed' = elapsed + d
          /\ pc' = IF check_health(x) THEN "ready" ELSE "wait_sleep"
    /\ UNCHANGED <<store, window, probes, spawns, backend_already_running, io,
                   child, we_own_it, managed, proc, drain, output_log, waited,
                   kills, cb, lock, push>>

\* main.rs:103: Duration::from_secs(2), in ticks
LOG_PRINT_INTERVAL == 8

\* main.rs:103: last_log_print.elapsed() > 2 s.  The reading of this second
\* clock is not kept: the print is taken as due or not due at every turn
\* of the loop, except that it cannot be due while start, which is no
\* younger than last_log_print, is within the two seconds.
PrintCanBeDue(t) == t > LOG_PRINT_INTERVAL

\* main.rs:107: the lines the snapshot prints
SNAPSHOT_LINES == 5

\* main.rs:105-112: logs.iter().rev().take(5).rev()
Snapshot(logs) ==
    IF Len(logs) <= SNAPSHOT_LINES THEN logs
    ELSE SubSeq(logs, Len(logs) - SNAPSHOT_LINES + 1, Len(logs))

\* main.rs:119-128: the dump prints every line
Dump(logs) == logs

\* main.rs:103-104: the print is due; output_log.lock()
WaitSnapshot ==
    /\ pc = "wait_sleep"
    /\ PrintCanBeDue(elapsed)
    /\ LockFree("log")
    /\ lock' = [lock EXCEPT !.log = Startup]
    /\ pc' = "wait_print"
    /\ UNCHANGED <<store, window, probes, spawns, backend_already_running, io,
                   child, we_own_it, managed, proc, drain, output_log, elapsed,
                   waited, kills, cb, push>>

\* main.rs:105-116: Snapshot(output_log) is printed, last_log_print is set,
\* the guard is dropped at the end of the block, and the thread sleeps.
WaitPrinted ==
    /\ pc = "wait_print"
    /\ lock' = [lock EXCEPT !.log = Free]
    /\ elapsed' = elapsed + HEALTHCHECK_INTERVAL
    /\ pc' = "wait"
    /\ UNCHANGED <<store, window, probes, spawns, backend_already_running, io,
                   child, we_own_it, managed, proc, drain, output_log, waited,
                   kills, cb, push>>

\* main.rs:103, 116: the print is not due; thread::sleep(HEALTHCHECK_INTERVAL)
WaitSleep ==
    /\ pc = "wait_sleep"
    /\ elapsed' = elapsed + HEALTHCHECK_INTERVAL
    /\ pc' = "wait"
    /\ UNCHANGED <<store, window, probes, spawns, backend_already_running, io,
                   child, we_own_it, managed, proc, drain, output_log, waited,
                   kills, cb, lock, push>>

\* main.rs:98, 119: the budget is used up; output_log.lock()
WaitTimeout ==
    /\ pc = "wait"
    /\ ~ WithinBudget(elapsed)
    /\ LockFree("log")
    /\ lock' = [lock EXCEPT !.log = Startup]
    /\ pc' = "wait_dump"
    /\ UNCHANGED <<store, window, probes, spawns, backend_already_running, io,
                   child, we_own_it, managed, proc, drain, output_log, elapsed,
                   waited, kills, cb, push>>

\* main.rs:120-130: Dump(output_log) is printed, false is returned and the
\* guard dropped with it
WaitDumped ==
    /\ pc = "wait_dump"
    /\ lock' = [lock EXCEPT !.log = Free]
    /\ pc' = "failed"
    /\ UNCHANGED <<store, window, probes, spawns, backend_already_running, io,
                   child, we_own_it, managed, proc, drain, output_log, elapsed,
                   waited, kills, cb, push>>

\* Mutant: the timeout path returns the error without the kill.
KillOnTimeoutNever(own) == FALSE

\* main.rs:227: the spawned child is killed on timeout when we own it
KillOnTimeout(own) == own

\* main.rs:226-230
TimeoutKill ==
    /\ pc = "failed"
    /\ \E ok \in BOOLEAN :
          LET k == IF KillOnTimeout(we_own_it)
                   THEN kill_backend(child, ok, proc)
                   ELSE [child |-> child, calls |-> 0, proc |-> proc]
          IN  /\ child' = k.child
              /\ kills' = kills + k.calls
              /\ proc' = k.proc
    /\ pc' = "timeout_ret"
    /\ UNCHANGED <<store, window, probes, spawns, backend_already_running, io,
                   we_own_it, managed, drain, output_log, elapsed, waited, cb, lock, push>>

\* main.rs:231: return Err("backend healthcheck failed ...")
TimeoutReturn ==
    /\ pc = "timeout_ret"
    /\ pc' = "err_timeout"
    /\ UNCHANGED <<store, sup>>

\* main.rs:233-239: app.manage(BackendState { child, we_own_backend, output_log })
SetupManage ==
    /\ pc = "ready"
    /\ managed' = TRUE
    /\ elapsed' = 0
    /\ pc' = "show"
    /\ UNCHANGED <<store, window, probes, spawns, backend_already_running, io,
                   child, we_own_it, proc, drain, output_log, waited, kills, cb, lock, push>>

\* main.rs:241-244: window.show()?; window.set_focus()?; Ok(())
SetupShow ==
    /\ pc = "show"
    /\ \E outcome \in {"show_failed", "focus_failed", "ok"} :
          /\ window' = CASE outcome = "show_failed" -> window
                         [] outcome = "focus_failed" -> "shown"
                         [] OTHER -> "focused"
          /\ pc' = IF outcome = "ok" THEN "running" ELSE "err_window"
    /\ UNCHANGED <<store, probes, spawns, backend_already_running, io, child,
                   we_own_it, managed, proc, drain, output_log, elapsed,
                   waited, kills, cb, lock, push>>

(***************************************************************************)
(* The drain task (main.rs:180-206) and the child process.                 *)
(***************************************************************************)
Tags == {"[STDOUT]", "[STDERR]", "[ERROR]", "[TERMINATED]"}

\* One event received from rx, printed, formatted with its tag, and
\* output_log_clone.lock() taken for it.  The Terminated event comes once
\* the process is gone and is the last one.
DrainEvent ==
    /\ drain = "on"
    /\ push = NoEntry
    /\ pc \notin Terminal
    /\ Len(output_log) < MaxLog
    /\ LockFree("log")
    /\ \E tag \in Tags :
          /\ tag = "[TERMINATED]" => proc = "exited"
          /\ push' = [tag |-> tag, text |-> "line"]
    /\ lock' = [lock EXCEPT !.log = DrainTask]
    /\ UNCHANGED <<store, window, probes, spawns, backend_already_running, io,
                   child, we_own_it, managed, proc, drain, output_log, elapsed,
                   waited, kills, cb, pc>>

\* Vec::push of the entry, and the guard, a temporary of the statement,
\* dropped (main.rs:186, 190, 194, 199-201)
DrainPush ==
    /\ push # NoEntry
    /\ pc \notin Terminal
    /\ output_log' = Append(output_log, push)
    /\ push' = NoEntry
    /\ lock' = [lock EXCEPT !.log = Free]
    /\ drain' = IF push.tag = "[TERMINATED]" THEN "ended" ELSE "on"
    /\ UNCHANGED <<store, window, probes, spawns, backend_already_running, io,
                   child, we_own_it, managed, proc, elapsed, waited, kills,
                   cb, pc>>

\* The child process ends by itself.
ChildExits ==
    /\ proc = "running"
    /\ pc \notin Terminal
    /\ proc' = "exited"
    /\ UNCHANGED <<store, window, probes, spawns, backend_already_running, io,
                   child, we_own_it, managed, drain, output_log, elapsed,
                   waited, kills, cb, pc, lock, push>>

(***************************************************************************)
(* on_window_event (main.rs:255-271), once per CloseRequested.             *)
(***************************************************************************)
CloseRequested ==
    /\ pc = "running"
    /\ Len(cb) < MaxClose
    /\ cb' = Append(cb, [st |-> "entered", should_kill |-> FALSE])
    /\ UNCHANGED <<store, window, probes, spawns, backend_already_running, io,
                   child, we_own_it, managed, proc, drain, output_log,
                   elapsed, waited, kills, pc, lock, push>>

\* Mutant: the callback does not consult the ownership flag.
ReadOwnershipIgnored(flag) == TRUE

\* main.rs:260: should_kill = *state.we_own_backend.lock()
ReadOwnership(flag) == flag

\* Mutant: the guard of the flag is bound to a name and lives to the end
\* of the callback.
FlagGuardKept(i) == Callback(i)

\* main.rs:260: the guard is a temporary of the let statement and is
\* dropped at its end
FlagGuardAfterRead(i) == Free

\* main.rs:260: state.we_own_backend.lock()
CloseLockFlag(i) ==
    /\ cb[i].st = "entered"
    /\ LockFree("flag")
    /\ lock' = [lock EXCEPT !.flag = Callback(i)]
    /\ cb' = [cb EXCEPT ![i].st = "flag_locked"]
    /\ UNCHANGED <<store, window, probes, spawns, backend_already_running, io,
                   child, we_own_it, managed, proc, drain, output_log,
                   elapsed, waited, kills, push, pc>>

\* main.rs:260: the flag is copied out and the statement ends
CloseReadFlag(i) ==
    /\ cb[i].st = "flag_locked"
    /\ cb' = [cb EXCEPT ![i] = [st |-> "decided",
                               should_kill |-> ReadOwnership(we_own_it)]]
    /\ lock' = [lock EXCEPT !.flag = FlagGuardAfterRead(i)]
    /\ UNCHANGED <<store, window, probes, spawns, backend_already_running, io,
                   child, we_own_it, managed, proc, drain, output_log,
                   elapsed, waited, kills, push, pc>>

\* main.rs:262-264: should_kill holds; state.child.lock()
CloseLockChild(i) ==
    /\ cb[i].st = "decided"
    /\ cb[i].should_kill
    /\ LockFree("child")
    /\ lock' = [lock EXCEPT !.child = Callback(i)]
    /\ cb' = [cb EXCEPT ![i].st = "child_locked"]
    /\ UNCHANGED <<store, window, probes, spawns, backend_already_running, io,
                   child, we_own_it, managed, proc, drain, output_log,
                   elapsed, waited, kills, push, pc>>

\* main.rs:265-269: kill_backend(&mut child_guard) and the guard dropped at
\* the end of the if let; or the message of the else arm
CloseAct(i) ==
    /\ cb[i].st = IF cb[i].should_kill THEN "child_locked" ELSE "decided"
    /\ \E ok \in BOOLEAN :
          LET k == IF cb[i].should_kill
                   THEN kill_backend(child, ok, proc)
                   ELSE [child |-> child, calls |-> 0, proc |-> proc]
          IN  /\ child' = k.child
              /\ kills' = kills + k.calls
              /\ proc' = k.proc
    /\ lock' = [lock EXCEPT
                   !.child = IF cb[i].should_kill THEN Free ELSE @]
    /\ cb' = [cb EXCEPT ![i].st = "done"]
    /\ UNCHANGED <<store, window, probes, spawns, backend_already_running, io,
                   we_own_it, managed, drain, output_log, elapsed, waited,
                   push, pc>>

(***************************************************************************)
(* The session.                                                            *)
(***************************************************************************)
\* Bytes of a blob that save_config of this build wrote for entity c.
SavedBytes(w, c) == encrypt_bytes(w, to_vec(c))

\* What a session can find on disk when it starts: the files of earlier
\* sessions, of other builds, or edited or damaged since.
Disk(w, dd, d, b, m, cm) ==
    [windows |-> w, data_dir |-> dd, dir |-> d, blob |-> b, mirror |-> m,
     cwd_mirror |-> cm]

InitDisks ==
    { \* nothing saved yet
      Disk(FALSE, TRUE, FALSE, NoBlob, NoText, NoText),
      Disk(FALSE, TRUE, TRUE, NoBlob, NoText, TextFile(to_env_format(CfgC))),
      \* no local data directory on this machine
      Disk(FALSE, FALSE, FALSE, NoBlob, NoText, NoText),
      \* what an earlier save left
      Disk(FALSE, TRUE, TRUE, BlobFile(SavedBytes(FALSE, CfgA)),
           TextFile(to_env_format(CfgA)), NoText),
      Disk(TRUE, TRUE, TRUE, BlobFile(SavedBytes(TRUE, CfgA)), NoText, NoText),
      \* a blob whose entity lacks a credential
      Disk(FALSE, TRUE, TRUE, BlobFile(SavedBytes(FALSE, CfgNoTenant)),
           NoText, NoText),
      \* a blob that fails to decode, to unseal, to be read; a mirror beside it
      Disk(FALSE, TRUE, TRUE, BlobFile(Garbage),
           TextFile(to_env_format(CfgB)), NoText),
      Disk(TRUE, TRUE, TRUE, BlobFile(to_vec(CfgA)),
           TextFile(to_env_format(CfgB)), NoText),
      Disk(FALSE, TRUE, TRUE,
           [BlobFile(SavedBytes(FALSE, CfgA)) EXCEPT !.readable = FALSE],
           TextFile(to_env_format(CfgB)), NoText),
      \* a blob that fails to decode beside a mirror without credentials
      Disk(FALSE, TRUE, TRUE, BlobFile(Garbage),
           TextFile(to_env_format(CfgNoTenant)), TextFile(to_env_format(CfgC))),
      \* only a mirror in the working directory beside a damaged blob
      Disk(FALSE, TRUE, TRUE, BlobFile(Garbage), NoText,
           TextFile(to_env_format(CfgC))) }

Init ==
    /\ \E k \in InitDisks :
          /\ windows = k.windows
          /\ data_dir = k.data_dir
          /\ dir = k.dir
          /\ blob = k.blob
          /\ mirror = k.mirror
          /\ cwd_mirror = k.cwd_mirror
    /\ loaded = DefaultConfig
    /\ ret = NoResult
    /\ cmds = 0
    /\ pc = "start"
    /\ window = "initial"
    /\ probes = 0
    /\ spawns = 0
    /\ backend_already_running = FALSE
    /\ io = NoExchange
    /\ child = "None"
    /\ we_own_it = FALSE
    /\ managed = FALSE
    /\ proc = "none"
    /\ drain = "off"
    /\ output_log = <<>>
    /\ elapsed = 0
    /\ waited = FALSE
    /\ kills = 0
    /\ cb = <<>>
    /\ lock = NoLocks
    /\ push = NoEntry

Next ==
    \/ SetupWindow
    \/ SetupLoadConfig
    \/ SetupRefreshSave
    \/ SetupProbe
    \/ SetupProbeResult
    \/ SetupReuse
    \/ SetupSpawn
    \/ WaitStart
    \/ WaitProbe
    \/ WaitSnapshot
    \/ WaitPrinted
    \/ WaitSleep
    \/ WaitTimeout
    \/ WaitDumped
    \/ TimeoutKill
    \/ TimeoutReturn
    \/ SetupManage
    \/ SetupShow
    \/ DrainEvent
    \/ DrainPush
    \/ ChildExits
    \/ CloseRequested
    \/ \E i \in 1..Len(cb) : CloseLockFlag(i)
    \/ \E i \in 1..Len(cb) : CloseReadFlag(i)
    \/ \E i \in 1..Len(cb) : CloseLockChild(i)
    \/ \E i \in 1..Len(cb) : CloseAct(i)
    \/ CmdSave(MaxSessionCmds)
    \/ CmdLoad(MaxSessionCmds)
    \/ CmdHasConfig(MaxSessionCmds)
    \/ CmdDelete(MaxSessionCmds)
    \/ CmdNoDataDir(MaxSessionCmds)

Spec == Init /\ [][Next]_vars

\* The startup thread keeps running: check_health returns (each of its I/O
\* steps has a timeout), thread::sleep returns, and lock() returns once the
\* Mutex is free; the drain task completes the push it holds the lock for.
LiveSpec ==
    /\ Spec
    /\ WF_vars(WaitStart \/ WaitProbe \/ WaitSnapshot \/ WaitPrinted
                 \/ WaitSleep \/ WaitTimeout \/ WaitDumped)
    /\ WF_vars(DrainPush)

\* One step of the callback of the i-th CloseRequested.
CloseStep(i) ==
    /\ i \in 1..Len(cb)
    /\ \/ CloseLockFlag(i)
       \/ CloseReadFlag(i)
       \/ CloseLockChild(i)
       \/ CloseAct(i)

\* The event loop runs each callback it has started: lock() returns once
\* the Mutex is free and kill_backend returns.
CloseSpec == Spec /\ \A i \in 1..MaxClose : WF_vars(CloseStep(i))


(***************************************************************************)
(* The store on its own: the window is up on a reused backend and the GUI  *)
(* invokes the config commands, on files as earlier sessions, the user     *)
(* (the mirror is a text file meant to be read and edited) or other        *)
(* programs have left them.                                                *)
(***************************************************************************)
Unreadable(f) == [f EXCEPT !.readable = FALSE]

StoreBlobs(w) ==
    { NoBlob, BlobFile(SavedBytes(w, CfgA)), BlobFile(Garbage),
      Unreadable(BlobFile(SavedBytes(w, CfgA))) }

StoreMirrors ==
    { NoText, TextFile(to_env_format(CfgB)),
      TextFile(to_env_format(CfgNoTenant)),
      Unreadable(TextFile(to_env_format(CfgB))) }

StoreCwdMirrors ==
    { NoText, TextFile(to_env_format(CfgC)),
      TextFile(to_env_format(CfgNoTenant)) }

\* A mirror with the three credentials and nothing else.
CredentialsText ==
    JoinNL(<< <<"SP_TENANT_ID", EQ, "t">>, <<"SP_CLIENT_ID", EQ, "c">>,
              <<"SP_CLIENT_SECRET", EQ, "s">> >>)

\* The same with one more line, key=value.
TextWithLine(key, value) == CredentialsText \o <<NL, key, EQ>> \o value

NumericKeys == {"SP_TIMEOUT_S", "SP_EVENTS_SNAPSHOT_THRESHOLD_KB"}

\* Values a numeric key can be given in a mirror.
NumberTexts ==
    { <<"0">>, <<"-", "5">>, <<"3", ".", "7">>, <<"a", "b", "c">>, <<>>,
      <<"inf">>, <<"-", "inf">>, <<"nan">>, <<"2", ".", "5">>,
      <<"0", ".", "4">>, <<"7">>,
      <<"1", "6", "7", "7", "7", "2", "1", "7">>,
      <<"9", "9", "9", "9", "9", "9", "9", "9", "9", "9", "9">> }

NumberMirrors ==
    {TextFile(CredentialsText)}
    \cup {TextFile(TextWithLine(k, v)) : k \in NumericKeys, v \in NumberTexts}

\* Mirrors with a line that has no '=' or no key, after or before the lines
\* that assign.
BareLineMirrors ==
    { TextFile(CredentialsText \o <<NL, "SP_TENANT_ID">>),
      TextFile(CredentialsText \o <<NL, "SP_TIMEOUT_S", EQ, "5", NL, "SP_TIMEOUT_S">>),
      TextFile(CredentialsText \o <<NL, "NOT_A_KEY">>),
      TextFile(CredentialsText \o <<NL, EQ, "x">>),
      TextFile(<<"USER_NAME", NL>> \o CredentialsText) }

\* Values of a string key with quotes and blanks around them.
QuotedTexts ==
    { <<DQ, "a", DQ>>, <<SQ, "a", SQ>>, <<" ", DQ, "a", DQ, " ">>,
      <<DQ, "a">>, <<"a", SQ>>, <<DQ, "a", SQ>>,
      <<DQ, DQ, "a", DQ, DQ>>, <<DQ, SQ, "a", SQ, DQ>>,
      <<SQ, DQ, "a", DQ, SQ>>, <<DQ, "a", DQ, "b", DQ>>, <<DQ>>, <<DQ, DQ>> }

QuotedMirrors == {TextFile(TextWithLine("USER_NAME", v)) : v \in QuotedTexts}

StoreDisks ==
    { Disk(w, TRUE, TRUE, b, m, cm) :
          w \in BOOLEAN, b \in UNION {StoreBlobs(x) : x \in BOOLEAN},
          m \in StoreMirrors, cm \in StoreCwdMirrors }
    \cup { Disk(FALSE, TRUE, TRUE, NoBlob, m, NoText) :
               m \in NumberMirrors \cup BareLineMirrors \cup QuotedMirrors }
    \cup { Disk(FALSE, TRUE, FALSE, NoBlob, NoText, NoText),
           Disk(FALSE, FALSE, FALSE, NoBlob, NoText, NoText) }

StoreInit ==
    /\ \E k \in StoreDisks :
          /\ windows = k.windows
          /\ data_dir = k.data_dir
          /\ dir = k.dir
          /\ blob = k.blob
          /\ mirror = k.mirror
          /\ cwd_mirror = k.cwd_mirror
    /\ loaded = DefaultConfig
    /\ ret = NoResult
    /\ cmds = 0
    /\ pc = "running"
    /\ window = "focused"
    /\ probes = 1
    /\ spawns = 0
    /\ backend_already_running = TRUE
    /\ io = NoExchange
    /\ child = "None"
    /\ we_own_it = FALSE
    /\ managed = TRUE
    /\ proc = "none"
    /\ drain = "off"
    /\ output_log = <<>>
    /\ elapsed = 0
    /\ waited = TRUE
    /\ kills = 0
    /\ cb = <<>>
    /\ lock = NoLocks
    /\ push = NoEntry

StoreNext ==
    \/ CmdSave(MaxCmds)
    \/ CmdLoad(MaxCmds)
    \/ CmdHasConfig(MaxCmds)
    \/ CmdDelete(MaxCmds)
    \/ CmdNoDataDir(MaxCmds)

StoreSpec == StoreInit /\ [][StoreNext]_vars


(***************************************************************************)
(* Properties.                                                             *)
(***************************************************************************)
\* The setup closure has passed the reuse-or-spawn decision of main.rs:173.
Decided ==
    \/ pc \in {"call_wait", "wait", "wait_sleep", "wait_print", "wait_dump",
               "ready", "failed",
               "timeout_ret", "err_timeout", "err_spawn", "show", "running"}
    \/ pc = "err_window" /\ managed

\* C1: when the probe of main.rs:168 succeeded (the backend is reused), the
\* session calls kill on no process, neither after a failed wait nor in any
\* CloseRequested callback: there is no handle and no child process, and every
\* callback that has read the ownership flag has read false.
C1_ReusedBackendNeverKilled ==
    backend_already_running =>
        /\ kills = 0
        /\ child = "None"
        /\ proc = "none"
        /\ ~ we_own_it
        /\ \A i \in 1..Len(cb) :
              cb[i].st \in {"decided", "done"} => ~ cb[i].should_kill

C1_Witness ==
    /\ backend_already_running
    /\ Len(cb) = MaxClose
    /\ \A i \in 1..Len(cb) : cb[i].st = "done"

\* C2: kill is called at most once in a session, and in a session that owns
\* the backend and became ready, once a CloseRequested callback has finished
\* kill has been called exactly once and the handle is gone.
C2_OwnedBackendKilledOnce ==
    /\ kills <= 1
    /\ (we_own_it /\ \E i \in 1..Len(cb) : cb[i].st = "done") =>
          kills = 1 /\ child = "None"

C2_Witness ==
    /\ we_own_it
    /\ Len(cb) = MaxClose
    /\ \A i \in 1..Len(cb) : cb[i].st = "done"
    /\ kills = 1

\* C3: once wait_for_backend has returned false, setup does nothing but
\* return the error, with or without ownership; and at the step that returns
\* the error a session that owns the child has already called kill on it.
C3_TimeoutKillsBeforeError ==
    [][ /\ pc = "failed" => pc' \in {"failed", "timeout_ret"}
        /\ pc = "timeout_ret" => pc' \in {"timeout_ret", "err_timeout"}
        /\ pc = "err_timeout" => pc' = "err_timeout"
        /\ (pc # "err_timeout" /\ pc' = "err_timeout") =>
              /\ pc = "timeout_ret"
              /\ we_own_it => (kills = 1 /\ child = "None")
              /\ ~ managed /\ window = "hidden" ]_vars

C3_Witness == pc = "err_timeout" /\ we_own_it /\ kills = 1

\* C5: setup probes once before it decides; after the decision one attempt
\* to create the child has been made exactly when that probe failed, never
\* more than one; ownership is true exactly when the child was created.
C5_OneProbeOneSpawn ==
    /\ probes <= 1
    /\ spawns <= 1
    /\ Decided => probes = 1 /\ (spawns = 1 <=> ~ backend_already_running)
    /\ ~ Decided => spawns = 0
    /\ we_own_it <=> proc # "none"

C5_Witness == pc = "running" /\ spawns = 1 /\ we_own_it

\* C7: the window is shown only after wait_for_backend returned true and the
\* BackendState was registered, which happens only then; a session that ends
\* in a spawn failure or a health timeout never shows it.
C7_RevealOnlyWhenReady ==
    /\ [] ( /\ window \in {"shown", "focused"} => managed
            /\ managed => waited /\ pc \in {"show", "running", "err_window"}
            /\ pc \in {"failed", "timeout_ret", "err_timeout", "err_spawn"} =>
                  window = "hidden" /\ ~ managed )
    /\ [][ /\ (~ managed /\ managed') => pc = "ready"
           /\ window' # window =>
                 \/ pc = "start" /\ window' = "hidden"
                 \/ pc = "show" /\ managed ]_vars

C7_Witness == pc = "running" /\ window = "focused" /\ managed

\* C8: when the child cannot be created setup returns the error at once:
\* wait_for_backend is not called, no drain task runs, there is no handle, no
\* ownership, no registered state, and the window stays hidden.
C8_SpawnFailureAborts ==
    (spawns = 1 /\ proc = "none") =>
        /\ pc = "err_spawn"
        /\ ~ waited
        /\ drain = "off"
        /\ output_log = <<>>
        /\ child = "None"
        /\ ~ we_own_it
        /\ ~ managed
        /\ window = "hidden"
        /\ kills = 0

C8_Witness == pc = "err_spawn" /\ spawns = 1


\* C6 as stated: wait_for_backend returns true only at an elapsed time below
\* the budget.
C6_ReadyWithinBudget == pc = "ready" => elapsed < HEALTHCHECK_TIMEOUT

\* C6, amended: check_health is called only while the elapsed time is below
\* the budget, and wait_for_backend returns true only on such a call returning
\* true, by which time the budget may be used up by no more than that call's
\* duration; it returns false only from the loop's condition, with the elapsed
\* time at least the budget; and once called it returns one or the other.
C6_WaitEndsReadyOrFailed ==
    /\ [][ /\ (pc = "wait" /\ pc' \in {"ready", "wait_sleep"}) =>
                 /\ elapsed < HEALTHCHECK_TIMEOUT
                 /\ elapsed' < HEALTHCHECK_TIMEOUT + PROBE_IO_TIMEOUT
           /\ (pc # "ready" /\ pc' = "ready") => pc = "wait"
           /\ (pc # "wait_dump" /\ pc' = "wait_dump") =>
                 pc = "wait" /\ elapsed >= HEALTHCHECK_TIMEOUT
           /\ (pc # "failed" /\ pc' = "failed") =>
                 pc = "wait_dump" /\ elapsed >= HEALTHCHECK_TIMEOUT ]_vars
    /\ (pc = "call_wait") ~> (pc \in {"ready", "failed"})

\* A probe that began within the budget returns true after it is used up.
C6_Witness == pc = "ready" /\ elapsed >= HEALTHCHECK_TIMEOUT


\* C4: after a health timeout in a session that owns the spawned process,
\* the process is no longer running once the error has been returned.
C4_TimeoutLeavesNoProcess ==
    (pc = "err_timeout" /\ we_own_it) => proc # "running"

\* A step that runs ConfigManager::save_config or refuses to: the save
\* command, or the refresh of main.rs:153.
SaveStep ==
    \/ cmds' = cmds + 1 /\ ret'.op = "save"
    \/ pc = "refresh" /\ pc' = "probe"

\* C9: every save of an entity that lacks a credential is refused with the
\* missing-credentials error and leaves the blob and the mirror as they
\* were, and no other entity is refused for its credentials; the refresh at
\* startup included.
C9_EverySaveValidates ==
    [][ SaveStep =>
           IF validate_required(ret'.cfg)
           THEN ret'.err # ErrMissing
           ELSE ret'.err = ErrMissing /\ UNCHANGED <<blob, mirror>> ]_vars

\* The blob exists and the blob path of load_config does not yield an entity.
BlobPathFails ==
    /\ blob.exists
    /\ \/ ~ blob.readable
       \/ ~ decrypt_ok(windows, blob.bytes)
       \/ ~ from_slice_ok(decrypt_bytes(windows, blob.bytes))

\* The store's mirror exists, reads and parses to an entity with credentials.
MirrorValid ==
    /\ mirror.exists
    /\ mirror.readable
    /\ validate_required(config_from_env(parse_env(mirror.text)))

\* C10: with a blob and a valid mirror both present, a load whose blob path
\* fails in whatever way returns the entity parsed from the mirror, without
\* an error.
C10_BlobFailureFallsBack ==
    (ret.op = "load" /\ BlobPathFails /\ MirrorValid) =>
        /\ ret.ok
        /\ ret.cfg = config_from_env(parse_env(mirror.text))


FromMirror == config_from_env(parse_env(mirror.text))

\* C12: after a save that succeeded of an entity whose numbers are 1 or
\* more, the mirror it wrote parses back to the entity saved in every string
\* field that was not empty and in both numbers.
C12_MirrorRoundTrip ==
    (ret.op = "save" /\ ret.ok /\ \A f \in NumFields : ret.cfg[f] # 0) =>
        /\ \A f \in StrFields : ret.cfg[f] # <<>> => FromMirror[f] = ret.cfg[f]
        /\ \A f \in NumFields : FromMirror[f] = ret.cfg[f]

\* C13: after every call of ConfigManager::save_config that returned Ok, from
\* the save command or from the refresh at startup, both files exist, the
\* blob unseals and decodes, and the mirror's content is to_env_format of
\* the entity it decodes to.
C13_FormsDerivable ==
    (ret.op \in {"save", "refresh"} /\ ret.ok) =>
        /\ dir
        /\ blob.exists
        /\ mirror.exists
        /\ decrypt_ok(windows, blob.bytes)
        /\ from_slice_ok(decrypt_bytes(windows, blob.bytes))
        /\ mirror.text =
               to_env_format(from_slice(decrypt_bytes(windows, blob.bytes)))

C13_Witness ==
    /\ ret.op = "save" /\ ret.ok
    /\ mirror.text = to_env_format(CfgQuoted)

\* C14: after a delete that returned success neither file exists and
\* has_config is false; a delete fails only on a file that is present, so
\* with both absent it succeeds; a delete that follows a successful delete
\* succeeds and changes no file; and the has_config command answers true
\* exactly when the blob or the store's mirror exists.
C14_DeleteAndHasConfig ==
    /\ [] ( /\ (ret.op = "delete" /\ ret.ok) =>
                  /\ ~ blob.exists /\ ~ mirror.exists
                  /\ ~ has_config(blob, mirror)
            /\ (ret.op = "has_config" /\ ret.ok) =>
                  ret.has = (blob.exists \/ mirror.exists) )
    /\ [][ (cmds' = cmds + 1 /\ ret'.op = "delete" /\ data_dir) =>
              /\ ret'.err = "Failed to delete config.dat" => blob.exists
              /\ ret'.err = "Failed to delete .env" => mirror.exists
              /\ ret'.ok \/ ret'.err \in {"Failed to delete config.dat",
                                           "Failed to delete .env"}
              /\ (ret.op = "delete" /\ ret.ok) =>
                     ret'.ok /\ UNCHANGED <<dir, blob, mirror, cwd_mirror>> ]_vars

C14_Witness ==
    /\ cmds = 2
    /\ ret.op = "delete" /\ ret.ok
    /\ ~ blob.exists /\ ~ mirror.exists /\ cwd_mirror.exists

\* str::starts_with of a run of ordinary characters
StartsWith(s, run) == s # <<>> /\ Head(s) = run

\* C15: check_health returns true exactly when connect, write and the one
\* read succeeded, the read gave one byte or more, and what was read begins
\* with "HTTP/1.1 200" or "HTTP/1.0 200".
C15_ProbeTrueIffPrefix ==
    [][ (pc = "probe_io" /\ pc' = "decide") =>
           (backend_already_running' <=>
               /\ io.connect /\ io.write /\ io.read
               /\ Len(io.data) > 0
               /\ \/ StartsWith(io.data, "HTTP/1.1 200")
                  \/ StartsWith(io.data, "HTTP/1.0 200")) ]_vars

\* The last command was a load that returned the entity of the store's mirror.
LoadedFromMirror ==
    /\ ret.op = "load" /\ ret.ok
    /\ ~ blob.exists
    /\ mirror.exists

NumericField ==
    [ SP_TIMEOUT_S |-> "timeout_s",
      SP_EVENTS_SNAPSHOT_THRESHOLD_KB |-> "events_snapshot_threshold_kb" ]

\* The decimal text v read as a number: its sign, the digits of its whole
\* part and the digits of its fraction.
DecNeg(v) == v # <<>> /\ Head(v) = "-"
DecBody(v) == IF v # <<>> /\ Head(v) \in {"-", "+"} THEN Tail(v) ELSE v
DecWhole(v) ==
    StripZeros(IF IndexOf(DecBody(v), ".") = 0 THEN DecBody(v)
               ELSE SubSeq(DecBody(v), 1, IndexOf(DecBody(v), ".") - 1))
DecFrac(v) ==
    IF IndexOf(DecBody(v), ".") = 0 THEN <<>>
    ELSE SubSeq(DecBody(v), IndexOf(DecBody(v), ".") + 1, Len(DecBody(v)))

\* The digits of n + 1, for the digits of n.
RECURSIVE DigitsInc(_)
DigitsInc(s) ==
    IF s = <<>> THEN <<"1">>
    ELSE IF s[Len(s)] = "9" THEN DigitsInc(SubSeq(s, 1, Len(s) - 1)) \o <<"0">>
    ELSE SubSeq(s, 1, Len(s) - 1) \o <<Digits[DigitVal(s[Len(s)]) + 2]>>

\* The decimal v rounded to the nearest integer (one half goes up) and
\* floored at 1, in digits.
RoundedFloored(v) ==
    LET r == IF FracCmpHalf(DecFrac(v)) >= 0 THEN DigitsInc(DecWhole(v))
             ELSE DecWhole(v)
    IN  IF DecNeg(v) \/ r = <<>> THEN <<"1">> ELSE r

\* The value of a numeric key is a finite number.
FiniteNumber(v) == ParseF32(v).ok /\ ParseF32(v).finite

C17_NumbersPositive ==
    (ret.op \in {"save", "load"} /\ ret.ok) =>
        /\ ret.cfg.timeout_s # 0
        /\ ret.cfg.events_snapshot_threshold_kb # 0

\* C18: when the load of the startup refresh has returned an error, setup
\* goes no further: no probe, no spawn, and the window is not shown.
C18_StartupLoadFailureAborts ==
    (cmds = 0 /\ ret.op = "load" /\ ~ ret.ok) =>
        /\ probes = 0
        /\ spawns = 0
        /\ window \notin {"shown", "focused"}

\* The blob path of load_config gave no entity and no error: there is no
\* blob, or it was read and did not unseal or decode.
BlobYieldsNothing ==
    \/ ~ blob.exists
    \/ /\ blob.readable
       /\ \/ ~ decrypt_ok(windows, blob.bytes)
          \/ ~ from_slice_ok(decrypt_bytes(windows, blob.bytes))

\* What a load returns when the mirror candidate f is the one that decides.
DecidedBy(f) ==
    IF ~ f.readable THEN ret.err = "Failed to read .env"
    ELSE IF validate_required(config_from_env(parse_env(f.text)))
    THEN ret.ok /\ ret.cfg = config_from_env(parse_env(f.text))
    ELSE ret.err = ErrMissing

\* C19: a load whose blob path gave nothing is decided by the first mirror
\* candidate that exists, the store's mirror before the one of the working
\* directory: its entity is returned if it has the credentials, and the load
\* fails if it has not or cannot be read, whatever a later candidate holds;
\* and the load fails with the not-found error exactly when the blob path
\* gave nothing and neither candidate exists.
C19_FallbackOrder ==
    (ret.op = "load" /\ data_dir) =>
        /\ (BlobYieldsNothing /\ mirror.exists) => DecidedBy(mirror)
        /\ (BlobYieldsNothing /\ ~ mirror.exists /\ cwd_mirror.exists) =>
               DecidedBy(cwd_mirror)
        /\ ret.err = ErrNotFound <=>
               (BlobYieldsNothing /\ ~ mirror.exists /\ ~ cwd_mirror.exists)

\* The store's mirror lacks a credential and the load failed on it, with a
\* mirror that has them all in the working directory.
C19_Witness ==
    /\ ret.op = "load"
    /\ ret.err = ErrMissing
    /\ BlobYieldsNothing
    /\ mirror = TextFile(to_env_format(CfgNoTenant))
    /\ cwd_mirror = TextFile(to_env_format(CfgC))

\* A step of the save command that returns an error.
SaveFails == cmds' = cmds + 1 /\ ret'.op = "save" /\ ~ ret'.ok

IsBareLine(l) ==
    LET t == Trim(l) IN
    /\ t # <<>>
    /\ Head(t) # HASH
    /\ \/ IndexOf(t, EQ) = 0
       \/ Trim(SubSeq(t, 1, IndexOf(t, EQ) - 1)) = <<>>

WithoutBareLines(text) ==
    JoinNL(SelectSeq(Lines(text), LAMBDA l : ~ IsBareLine(l)))

\* C21: a load that the store's mirror decides returns what it would return
\* for the same text without its lines that have no '=' or no key.
C21_BareLineIgnored ==
    (ret.op = "load" /\ data_dir /\ ~ blob.exists
        /\ mirror.exists /\ mirror.readable) =>
        ret = LoadFallback(<<TextFile(WithoutBareLines(mirror.text))>>)

\* The value v of a line key=v as the mirror format gives it: trimmed, and
\* without one pair of the same quote around it if there is one.
StripOnePair(v) ==
    LET t == Trim(v) IN
    IF Len(t) >= 2 /\ t[1] \in {DQ, SQ} /\ t[Len(t)] = t[1]
    THEN SubSeq(t, 2, Len(t) - 1)
    ELSE t

\* C22: a load from a mirror whose last line is USER_NAME=v returns as user
\* name v trimmed and without its one matching pair of quotes, or the
\* default when that is empty.
C22_OnePairStripped ==
    \A v \in QuotedTexts :
        (LoadedFromMirror /\ mirror.text = TextWithLine("USER_NAME", v)) =>
            ret.cfg.user_name = IF StripOnePair(v) = <<>>
                                THEN DefaultConfig.user_name
                                ELSE StripOnePair(v)

\* C24: a config that loads at startup is saved again before any probe or
\* spawn; the refresh, whatever it returns, is followed by the probe; and
\* while a successful refresh is the last store operation, the spawned
\* backend included, the mirror holds to_env_format of the entity that was
\* loaded and the blob decodes to that entity.
C24_RefreshBeforeProbe ==
    /\ [][ /\ ( /\ pc = "config" /\ pc' # "config"
                /\ data_dir /\ has_config(blob, mirror)
                /\ load_config(windows, blob, mirror, cwd_mirror).ok ) =>
                   ( /\ pc' = "refresh" /\ probes' = 0 /\ spawns' = 0
                     /\ loaded' = load_config(windows, blob, mirror,
                                              cwd_mirror).cfg )
           /\ (pc = "refresh" /\ pc' # "refresh") =>
                   ( /\ pc' = "probe" /\ probes' = 0 /\ spawns' = 0
                     /\ ret'.op = "refresh" /\ ret'.cfg = loaded )
           /\ (probes' # probes \/ spawns' # spawns) => pc # "refresh"
         ]_vars
    /\ [] ( (ret.op = "refresh" /\ ret.ok) =>
               /\ mirror = TextFile(to_env_format(ret.cfg))
               /\ blob = BlobFile(SavedBytes(windows, ret.cfg))
               /\ decrypt_ok(windows, blob.bytes)
               /\ from_slice_ok(decrypt_bytes(windows, blob.bytes))
               /\ from_slice(decrypt_bytes(windows, blob.bytes)) = ret.cfg )

\* The blob was damaged and the entity came from the mirror; the refresh
\* succeeded and the backend was spawned after it.
C24_Witness ==
    /\ ret.op = "refresh" /\ ret.ok /\ ret.cfg = CfgB
    /\ proc = "running" /\ spawns = 1

\* C26: a present child handle implies ownership; without ownership the
\* handle is absent and the output log is empty; and the ownership flag
\* changes at no step but the decision to spawn or reuse, so it stays true
\* once the handle has been taken by a kill.
C26_OwnershipFixed ==
    /\ [] (child = "Some" => we_own_it)
    /\ [] (~ we_own_it => child = "None" /\ output_log = <<>>)
    /\ [][ /\ we_own_it' # we_own_it => pc = "decide"
           /\ managed => we_own_it' = we_own_it ]_vars

\* Registered, owned, and the handle taken by the kill of a close callback.
C26_Witness ==
    /\ managed /\ we_own_it /\ child = "None" /\ kills = 1
    /\ \E i \in 1..Len(cb) : cb[i].st = "done"

Activities == {Startup, DrainTask} \cup {Callback(i) : i \in 1..Len(cb)}

Held(a) == {l \in DOMAIN lock : lock[l] = a}

\* C25: no activity holds two of the three locks at once; the startup
\* thread and the drain task hold no lock but the log's and the callbacks
\* never hold that one; whenever a callback has not finished, some callback
\* can take a step; and every callback that was started finishes.
C25_OneLockAtATime ==
    /\ [] (\A a \in Activities : Cardinality(Held(a)) <= 1)
    /\ [] ( /\ lock.child \notin {Startup, DrainTask}
            /\ lock.flag \notin {Startup, DrainTask}
            /\ lock.log \in {Free, Startup, DrainTask} )
    /\ [] ((\E i \in 1..Len(cb) : cb[i].st # "done") =>
              \E i \in 1..Len(cb) : ENABLED CloseStep(i))
    /\ \A i \in 1..MaxClose :
          (Len(cb) >= i) ~> (Len(cb) >= i /\ cb[i].st = "done")

\* One callback holds the child's lock while another holds the flag's.
C25_Witness ==
    /\ Len(cb) = 2
    /\ lock.child = Callback(1)
    /\ lock.flag = Callback(2)

=============================================================================
